---- MODULE Spec2Model ----
(***************************************************************************)
(* State-machine model of the TTL + LRU + persistence cache engines of    *)
(* prompt-battle-ground, challenge 3:                                      *)
(*   - TTLLRUCache (v3, src/challenge3_cache/test-doc.md, lines 216-361): *)
(*     recency kept by the insertion order of a JS Map;                    *)
(*   - TTLCache (v2, src/unnamed/part_002, lines 43-208): recency kept by *)
(*     a lastAccessAt timestamp in every entry.                            *)
(* A JS Map is a sequence of entries in insertion order (first = oldest   *)
(* insertion); localStorage holds one item, the one under                  *)
(* config.storageKey; Date.now() is the variable now, which may advance   *)
(* between two reads made by the same call.                                *)
(***************************************************************************)
EXTENDS Integers, Sequences, FiniteSets, TLC

\* ------------------------------------------------------------------ bounds
\* The clock runs from 0 to MaxTime.
MaxTime == 2

\* The inputs the callers draw from: keys, values, maxSize, defaultTTLms, and
\* the ttlMs argument of set (<<>> when omitted, <<t>> when given).
Keys == {"A", "B", "C"}
TwoKeys == {"A", "B"}
KeysWithEmpty == {"", "A"}
Values == {"1", "2"}
\* The values a caller stores under each key.
ValuesFor(key) == IF key = "A" THEN Values ELSE IF key = "B" THEN {"2"} ELSE {"1"}
Capacities == {1, 2}
DefaultTTLs == {2}
TTLArgs == {<<>>, <<0>>, <<1>>}
\* The same for the callers of the v2 engine.
ValuesV2 == {"1"}
TTLArgsV2 == {<<>>, <<0>>}
\* The outcomes of localStorage.setItem: TRUE when it succeeds.
Writes == {TRUE}
\* The same when the store may be full or unavailable.
WritesIO == {TRUE, FALSE}
\* The values and ttlMs arguments of the callers of such a store.
ValuesIO == {"1"}
TTLArgsIO == {<<>>, <<1>>}

Undefined == "undefined"
V3 == "TTLLRUCache"
V2 == "TTLCache"

VARIABLES
    engine,     \* which class the demo instantiates (V3 or V2)
    now,        \* Date.now()
    cache,      \* this.cache: the Map, as a sequence in insertion order
    config,     \* this.config: [maxSize, defaultTTLms]
    storage,    \* localStorage item under config.storageKey
    log,        \* the events the most recent call passed to onLog, in order
    last,       \* the most recent call: its name, key argument and result
    uses,       \* history: resident keys by last use (set or get hit; the order
                \* of the snapshot for restored keys), oldest first
    written,    \* history: per key, the value and expiresAt of its latest set, until a
                \* delete, a clear, an eviction or the clock reaching expiresAt
    sortState,  \* table App: the list of [key, direction, priority] sorts
    page,       \* table App: the current page
    lastAction, \* table App: the status line
    activated,  \* history: the sorted columns in the order they became active
    allData,    \* table App: the imported rows
    filterQuery,           \* table App: the text of the filter box
    pageSize,              \* table App: rows per page
    isCustomPageSize,      \* table App: the custom page-size box is shown
    customPageSizeInput,   \* table App: the text of that box (<<>>: not a number)
    importError,           \* table App: the message under the import box
    v1Cache,        \* CacheSystem: the cache state of the last render
    v1Ref,          \* CacheSystem: cacheRef.current
    v1Queue,        \* CacheSystem: the setCache updates queued since the last render
    v1MaxSize,      \* CacheSystem: the maxSize state of the last render
    v1MaxSizeNext,  \* CacheSystem: the maxSize the next render takes
    v1Last          \* CacheSystem: the most recent handler call and what it returned or logged

\* The state of the cache demos and the state of the table App.
cacheVars == <<engine, now, cache, config, storage, log, last, uses, written>>

appVars == <<sortState, page, lastAction, activated, allData, filterQuery,
             pageSize, isCustomPageSize, customPageSizeInput, importError>>

v1Vars == <<v1Cache, v1Ref, v1Queue, v1MaxSize, v1MaxSizeNext, v1Last>>

vars == <<engine, now, cache, config, storage, log, last, uses, written,
          sortState, page, lastAction, activated, allData, filterQuery,
          pageSize, isCustomPageSize, customPageSizeInput, importError,
          v1Cache, v1Ref, v1Queue, v1MaxSize, v1MaxSizeNext, v1Last>>

\* ------------------------------------------------------------- JS Map
KeysOf(m) == {m[i].key : i \in DOMAIN m}

KeySeq(m) == [i \in DOMAIN m |-> m[i].key]

MapHas(m, k) == k \in KeysOf(m)

MapGet(m, k) == m[CHOOSE i \in DOMAIN m : m[i].key = k]

MapDelete(m, k) == SelectSeq(m, LAMBDA e : e.key # k)

\* Map.prototype.set: an existing key keeps its place, a new key goes last.
MapSet(m, k, e) ==
    IF MapHas(m, k)
    THEN [i \in DOMAIN m |-> IF m[i].key = k THEN e ELSE m[i]]
    ELSE Append(m, e)

\* A slip: the reverse() forgotten, so the list runs LRU first.
Reverse_none(s) == s

Reverse(s) == [i \in DOMAIN s |-> s[Len(s) + 1 - i]]

\* ------------------------------------------------------------- events
Ev(type, key, n) == [type |-> type, key |-> key, n |-> n]

Count(s, type) == Cardinality({i \in DOMAIN s : s[i].type = type})

EventKeys(s, type) == {s[i].key : i \in {j \in DOMAIN s : s[j].type = type}}

\* A call and what it returned: ret for get, flag for has and delete, n for size,
\* list for getEntries, getKeys and getAll (keys only); ttlMs is set's argument.
Call(op, key, ret, flag, n, list) ==
    [op |-> op, key |-> key, ttlMs |-> <<>>, ret |-> ret, flag |-> flag, n |-> n, list |-> list]

SetCall(key, ttlMs) ==
    [Call("set", key, Undefined, FALSE, 0, <<>>) EXCEPT !.ttlMs = ttlMs]

\* ------------------------------------------------------------- expiry
\* A slip: > for >=, so an entry is still served at the instant it expires.
IsExpired_exclusive(e, t) == t > e.expiresAt

\* The expiry test of both classes: now >= entry.expiresAt.
IsExpired(e, t) == t >= e.expiresAt

\* A slip: the sweep forgotten.
cleanupExpired_none(m, t) == m

cleanupExpired(m, t) == SelectSeq(m, LAMBDA e : ~IsExpired(e, t))

ExpiredEvents(m, t) ==
    LET dead == SelectSeq(m, LAMBDA e : IsExpired(e, t))
    IN  [i \in DOMAIN dead |-> Ev("expired", dead[i].key, 0)]

\* A slip: ttlMs || defaultTTLms, which takes an explicit 0 for an omitted ttl.
ResolveTTL_falsy(ttlMs, cfg) ==
    IF ttlMs = <<>> \/ ttlMs[1] = 0 THEN cfg.defaultTTLms ELSE ttlMs[1]

\* ttlMs ?? this.config.defaultTTLms; an omitted ttlMs is <<>>, a given one <<t>>.
ResolveTTL(ttlMs, cfg) == IF ttlMs = <<>> THEN cfg.defaultTTLms ELSE ttlMs[1]

\* ------------------------------------------------------------- storage
NullItem == [kind |-> "null", data |-> <<>>]

\* JSON.stringify(Array.from(this.cache.entries())): a list of [key, entry] pairs.
Stringify(m) ==
    [kind |-> "json",
     data |-> [i \in DOMAIN m |-> <<m[i].key, [f \in DOMAIN m[i] \ {"key"} |-> m[i][f]]>>]]

\* JSON.parse back to [key, entry] pairs, as Map entries.
ParseEntry(p) ==
    [f \in DOMAIN p[2] \cup {"key"} |-> IF f = "key" THEN p[1] ELSE p[2][f]]

\* An element of the parsed list that cannot be destructured as [key, entry]
\* (null): the for-of loop throws a TypeError on it.
Malformed(p) == Len(p) = 0

\* What localStorage.getItem yields when something else wrote the item: text
\* that JSON.parse rejects, JSON that is not iterable, and a list whose first
\* element is a live entry and whose second is null.
ForeignItems(eng) ==
    LET e == IF eng = "TTLCache"
             THEN [value |-> "1", expiresAt |-> MaxTime + 1, lastAccessAt |-> 0]
             ELSE [value |-> "1", expiresAt |-> MaxTime + 1]
    IN  {[kind |-> "text", data |-> <<>>],
         [kind |-> "object", data |-> <<>>],
         [kind |-> "json", data |-> <<<<"A", e>>, <<>>>>]}

\* JSON.parse or the loop over its result throws.
LoadThrows(item) ==
    \/ item.kind \in {"text", "object"}
    \/ item.kind = "json" /\ \E i \in DOMAIN item.data : Malformed(item.data[i])

\* A slip: every stored entry restored, the expired ones too.
LoadInto_all(m, data, t) == m \o [i \in DOMAIN data |-> ParseEntry(data[i])]

\* A slip: the live entries restored in the reverse of the stored order.
LoadInto_reversed(m, data, t) ==
    m \o Reverse(cleanupExpired([i \in DOMAIN data |-> ParseEntry(data[i])], t))

RECURSIVE LoadInto(_, _, _)
\* for (const [key, entry] of data) if (now < entry.expiresAt) this.cache.set(key, entry);
\* the loop ends at the first element it cannot destructure.
LoadInto(m, data, t) ==
    IF data = <<>> \/ Malformed(Head(data)) THEN m
    ELSE LET e == ParseEntry(Head(data))
         IN  LoadInto(IF IsExpired(e, t) THEN m ELSE MapSet(m, e.key, e), Tail(data), t)

\* A slip: the snapshot taken before the mutation instead of after it.
SavedItem_stale(m, ok) == IF ok THEN Stringify(cache) ELSE storage

\* saveToStorage: the item written when setItem succeeds, the old one when it throws.
SavedItem(m, ok) == IF ok THEN Stringify(m) ELSE storage

\* A slip: a failed write swallowed without a log entry.
SaveEvents_silent(m, ok) == IF ok THEN <<Ev("saved", "", Len(m))>> ELSE <<>>

SaveEvents(m, ok) ==
    IF ok THEN <<Ev("saved", "", Len(m))>> ELSE <<Ev("parse-error", "", 0)>>

\* ------------------------------------------------------------- history
\* The set in effect for each key, once the clock has passed none of them.
Prune(w, t) == [k \in Keys |-> IF w[k] # <<>> /\ t >= w[k][1].expiresAt THEN <<>> ELSE w[k]]

\* A use of k moves it to the recent end; keys no longer resident in m drop out.
Used(u, k, m) ==
    SelectSeq(Append(SelectSeq(u, LAMBDA x : x # k), k), LAMBDA x : x \in KeysOf(m))

Kept(u, m) == SelectSeq(u, LAMBDA x : x \in KeysOf(m))

\* The history after a TTLCache is rebuilt from its snapshot, which carries
\* lastAccessAt and so not the order of use: the restored keys keep the order
\* of their last uses, and keys never used in this history come first.
Restored(u, m) ==
    SelectSeq(KeySeq(m), LAMBDA k : \A i \in DOMAIN u : u[i] # k) \o Kept(u, m)

\* The second Date.now() of a call: the first one or later.
Later(t) == {t2 \in t .. t + 1 : t2 <= MaxTime}

Configs == [maxSize : Capacities, defaultTTLms : DefaultTTLs]

\* The configuration the demo mounts with (the largest of the modelled ones).
DefaultConfig ==
    CHOOSE c \in Configs : \A d \in Configs :
        c.maxSize >= d.maxSize /\ c.defaultTTLms >= d.defaultTTLms

\* ------------------------------------------------------------- TTLLRUCache (v3)
\* A slip: the most recently inserted key taken for the least recently used one.
LruKey_newest(m) == m[Len(m)].key

\* keys().next().value: the first key of the Map.
LruKey(m) == m[1].key

\* A slip: > for >=, so a full cache takes one entry more.
EvictIfFull_gt(m, cfg) == IF Len(m) > cfg.maxSize THEN MapDelete(m, LruKey(m)) ELSE m

\* set's eviction: if (this.cache.size >= this.config.maxSize) delete the first key.
EvictIfFull(m, cfg) == IF Len(m) >= cfg.maxSize THEN MapDelete(m, LruKey(m)) ELSE m

\* A slip: the eviction logged both before and after the key is deleted.
EvictEvents_twice(m, cfg) ==
    IF Len(m) >= cfg.maxSize
    THEN <<Ev("evicted", LruKey(m), 0), Ev("evicted", LruKey(m), 0)>>
    ELSE <<>>

EvictEvents(m, cfg) ==
    IF Len(m) >= cfg.maxSize THEN <<Ev("evicted", LruKey(m), 0)>> ELSE <<>>

\* A slip: the entry deleted and not set again.
MoveToEnd_dropped(m, k) == MapDelete(m, k)

\* A slip: the move to the end forgotten, the entry left where it was.
MoveToEnd_inplace(m, k) == m

\* get's "move to end": this.cache.delete(key); this.cache.set(key, entry).
\* A slip: a sliding TTL, the hit pushing the entry's expiresAt back.
MoveToEnd_refresh(m, k) ==
    Append(MapDelete(m, k), [MapGet(m, k) EXCEPT !.expiresAt = @ + 1])

MoveToEnd(m, k) == Append(MapDelete(m, k), MapGet(m, k))

TTLLRUCache_loadFromStorage ==
    /\ cache' = IF storage.kind = "json" THEN LoadInto(<<>>, storage.data, now) ELSE <<>>
    /\ log' = IF storage.kind = "null" THEN <<>>
              ELSE IF LoadThrows(storage) THEN <<Ev("parse-error", "", 0)>>
              ELSE <<Ev("loaded", "", Len(cache'))>>
    /\ uses' = KeySeq(cache')
    /\ written' = Prune(written, now)
    /\ UNCHANGED <<now, storage>>
    /\ UNCHANGED appVars
    /\ UNCHANGED v1Vars

\* handleApplyConfig: setConfig, whose effect constructs a new engine from the store.
CacheDemo_handleApplyConfig(cfg) ==
    /\ engine = V3
    /\ config' = cfg
    /\ TTLLRUCache_loadFromStorage
    /\ last' = Call("new", "", Undefined, FALSE, 0, <<>>)
    /\ UNCHANGED engine

\* A slip: the capacity check made before the sweep, on the unswept Map.
TTLLRUCache_set_evictFirst(key, value, ttlMs, t2, ok) ==
    /\ engine = V3
    /\ LET ttl == ResolveTTL(ttlMs, config)
           entry == [key |-> key, value |-> value, expiresAt |-> t2 + ttl]
           removed == MapDelete(cache, key)
           room == EvictIfFull(removed, config)
           swept == cleanupExpired(room, now)
           m == MapSet(swept, key, entry)
       IN  /\ cache' = m
           /\ log' = EvictEvents(removed, config) \o ExpiredEvents(room, now)
                        \o <<Ev("set", key, ttl)>> \o SaveEvents(m, ok)
           /\ storage' = SavedItem(m, ok)
           /\ uses' = Used(uses, key, m)
           /\ written' = Prune([k \in Keys |->
                            IF k = key THEN <<[value |-> value, expiresAt |-> t2 + ttl]>>
                            ELSE IF k \in KeysOf(cache) \ KeysOf(m) THEN <<>>
                            ELSE written[k]], t2)
    /\ now' = t2
    /\ last' = SetCall(key, ttlMs)
    /\ UNCHANGED <<engine, config>>
    /\ UNCHANGED appVars
    /\ UNCHANGED v1Vars

TTLLRUCache_set(key, value, ttlMs, t2, ok) ==
    /\ engine = V3
    /\ LET swept == cleanupExpired(cache, now)
           ttl == ResolveTTL(ttlMs, config)
           entry == [key |-> key, value |-> value, expiresAt |-> t2 + ttl]
           removed == MapDelete(swept, key)
           room == EvictIfFull(removed, config)
           m == MapSet(room, key, entry)
       IN  /\ cache' = m
           /\ log' = ExpiredEvents(cache, now) \o EvictEvents(removed, config)
                        \o <<Ev("set", key, ttl)>> \o SaveEvents(m, ok)
           /\ storage' = SavedItem(m, ok)
           /\ uses' = Used(uses, key, m)
           /\ written' = Prune([k \in Keys |->
                            IF k = key THEN <<[value |-> value, expiresAt |-> t2 + ttl]>>
                            ELSE IF k \in KeysOf(swept) \ KeysOf(m) THEN <<>>
                            ELSE written[k]], t2)
    /\ now' = t2
    /\ last' = SetCall(key, ttlMs)
    /\ UNCHANGED <<engine, config>>
    /\ UNCHANGED appVars
    /\ UNCHANGED v1Vars

\* A slip: get persisting whenever it removed an expired entry, as TTLCache.get does.
TTLLRUCache_get_saving(key, t2) ==
    /\ engine = V3
    /\ LET swept == cleanupExpired(cache, now)
       IN  IF ~MapHas(swept, key)
           THEN /\ cache' = swept
                /\ log' = ExpiredEvents(cache, now) \o <<Ev("miss", key, 0)>>
                /\ last' = Call("get", key, Undefined, FALSE, 0, <<>>)
                /\ uses' = Kept(uses, swept)
           ELSE IF IsExpired(MapGet(swept, key), t2)
           THEN /\ cache' = MapDelete(swept, key)
                /\ log' = ExpiredEvents(cache, now) \o <<Ev("expired", key, 0)>>
                /\ last' = Call("get", key, Undefined, FALSE, 0, <<>>)
                /\ uses' = Kept(uses, cache')
           ELSE /\ cache' = MoveToEnd(swept, key)
                /\ log' = ExpiredEvents(cache, now) \o <<Ev("hit", key, 0)>>
                /\ last' = Call("get", key, MapGet(swept, key).value, FALSE, 0, <<>>)
                /\ uses' = Used(uses, key, cache')
    /\ storage' = IF Len(cache') < Len(cache) THEN Stringify(cache') ELSE storage
    /\ now' = t2
    /\ written' = Prune(written, t2)
    /\ UNCHANGED <<engine, config>>
    /\ UNCHANGED appVars
    /\ UNCHANGED v1Vars

TTLLRUCache_get(key, t2) ==
    /\ engine = V3
    /\ LET swept == cleanupExpired(cache, now)
       IN  IF ~MapHas(swept, key)
           THEN /\ cache' = swept
                /\ log' = ExpiredEvents(cache, now) \o <<Ev("miss", key, 0)>>
                /\ last' = Call("get", key, Undefined, FALSE, 0, <<>>)
                /\ uses' = Kept(uses, swept)
           ELSE IF IsExpired(MapGet(swept, key), t2)
           THEN /\ cache' = MapDelete(swept, key)
                /\ log' = ExpiredEvents(cache, now) \o <<Ev("expired", key, 0)>>
                /\ last' = Call("get", key, Undefined, FALSE, 0, <<>>)
                /\ uses' = Kept(uses, cache')
           ELSE /\ cache' = MoveToEnd(swept, key)
                /\ log' = ExpiredEvents(cache, now) \o <<Ev("hit", key, 0)>>
                /\ last' = Call("get", key, MapGet(swept, key).value, FALSE, 0, <<>>)
                /\ uses' = Used(uses, key, cache')
    /\ now' = t2
    /\ written' = Prune(written, t2)
    /\ UNCHANGED <<engine, config, storage>>
    /\ UNCHANGED appVars
    /\ UNCHANGED v1Vars

\* A slip: delete persisting and logging whether or not the key was there.
TTLLRUCache_delete_always(key, ok) ==
    /\ engine = V3
    /\ cache' = MapDelete(cache, key)
    /\ log' = <<Ev("delete", key, 0)>> \o SaveEvents(cache', ok)
    /\ storage' = SavedItem(cache', ok)
    /\ last' = Call("delete", key, Undefined, MapHas(cache, key), 0, <<>>)
    /\ uses' = Kept(uses, cache')
    /\ written' = [k \in Keys |-> IF k = key THEN <<>> ELSE written[k]]
    /\ UNCHANGED <<engine, now, config>>
    /\ UNCHANGED appVars
    /\ UNCHANGED v1Vars

\* A slip: delete removing the key from the Map without persisting.
TTLLRUCache_delete_unsaved(key, ok) ==
    /\ engine = V3
    /\ cache' = MapDelete(cache, key)
    /\ log' = IF MapHas(cache, key) THEN <<Ev("delete", key, 0)>> ELSE <<>>
    /\ last' = Call("delete", key, Undefined, MapHas(cache, key), 0, <<>>)
    /\ uses' = Kept(uses, cache')
    /\ written' = [k \in Keys |-> IF k = key THEN <<>> ELSE written[k]]
    /\ UNCHANGED <<engine, now, config, storage>>
    /\ UNCHANGED appVars
    /\ UNCHANGED v1Vars

TTLLRUCache_delete(key, ok) ==
    /\ engine = V3
    /\ LET deleted == MapHas(cache, key)
           m == MapDelete(cache, key)
       IN  /\ cache' = m
           /\ log' = IF deleted THEN <<Ev("delete", key, 0)>> \o SaveEvents(m, ok) ELSE <<>>
           /\ storage' = IF deleted THEN SavedItem(m, ok) ELSE storage
           /\ last' = Call("delete", key, Undefined, deleted, 0, <<>>)
           /\ uses' = Kept(uses, m)
    /\ written' = [k \in Keys |-> IF k = key THEN <<>> ELSE written[k]]
    /\ UNCHANGED <<engine, now, config>>
    /\ UNCHANGED appVars
    /\ UNCHANGED v1Vars

\* A slip: clear emptying the Map without persisting.
TTLLRUCache_clear_unsaved(ok) ==
    /\ engine = V3
    /\ cache' = <<>>
    /\ log' = <<Ev("clear", "", 0)>>
    /\ last' = Call("clear", "", Undefined, FALSE, 0, <<>>)
    /\ uses' = <<>>
    /\ written' = [k \in Keys |-> <<>>]
    /\ UNCHANGED <<engine, now, config, storage>>
    /\ UNCHANGED appVars
    /\ UNCHANGED v1Vars

TTLLRUCache_clear(ok) ==
    /\ engine = V3
    /\ cache' = <<>>
    /\ log' = <<Ev("clear", "", 0)>> \o SaveEvents(<<>>, ok)
    /\ storage' = SavedItem(<<>>, ok)
    /\ last' = Call("clear", "", Undefined, FALSE, 0, <<>>)
    /\ uses' = <<>>
    /\ written' = [k \in Keys |-> <<>>]
    /\ UNCHANGED <<engine, now, config>>
    /\ UNCHANGED appVars
    /\ UNCHANGED v1Vars

TTLLRUCache_getEntries ==
    /\ engine = V3
    /\ cache' = cleanupExpired(cache, now)
    /\ log' = ExpiredEvents(cache, now)
    /\ last' = Call("getEntries", "", Undefined, FALSE, 0, Reverse(KeySeq(cache')))
    /\ uses' = Kept(uses, cache')
    /\ UNCHANGED <<engine, now, config, storage, written>>
    /\ UNCHANGED appVars
    /\ UNCHANGED v1Vars

TTLLRUCache_getSize ==
    /\ engine = V3
    /\ cache' = cleanupExpired(cache, now)
    /\ log' = ExpiredEvents(cache, now)
    /\ last' = Call("size", "", Undefined, FALSE, Len(cache'), <<>>)
    /\ uses' = Kept(uses, cache')
    /\ UNCHANGED <<engine, now, config, storage, written>>
    /\ UNCHANGED appVars
    /\ UNCHANGED v1Vars

TTLLRUCache_getKeys ==
    /\ engine = V3
    /\ log' = <<>>
    /\ last' = Call("getKeys", "", Undefined, FALSE, 0, Reverse(KeySeq(cache)))
    /\ UNCHANGED <<engine, now, cache, config, storage, uses, written>>
    /\ UNCHANGED appVars
    /\ UNCHANGED v1Vars

\* A slip: has written like get, moving a key it finds to the recent end.
TTLLRUCache_has_touch(key) ==
    /\ engine = V3
    /\ LET swept == cleanupExpired(cache, now)
       IN  cache' = IF MapHas(swept, key) THEN MoveToEnd(swept, key) ELSE swept
    /\ log' = ExpiredEvents(cache, now)
    /\ last' = Call("has", key, Undefined, MapHas(cache', key), 0, <<>>)
    /\ uses' = Kept(uses, cache')
    /\ UNCHANGED <<engine, now, config, storage, written>>
    /\ UNCHANGED appVars
    /\ UNCHANGED v1Vars

TTLLRUCache_has(key) ==
    /\ engine = V3
    /\ cache' = cleanupExpired(cache, now)
    /\ log' = ExpiredEvents(cache, now)
    /\ last' = Call("has", key, Undefined, MapHas(cache', key), 0, <<>>)
    /\ uses' = Kept(uses, cache')
    /\ UNCHANGED <<engine, now, config, storage, written>>
    /\ UNCHANGED appVars
    /\ UNCHANGED v1Vars

\* A slip: a render that only reads the keys, as getKeys does, and never sweeps.
CacheDemo_render_unswept ==
    /\ engine = V3
    /\ log' = <<>>
    /\ last' = Call("render", "", Undefined, FALSE, Len(cache), Reverse(KeySeq(cache)))
    /\ UNCHANGED <<engine, now, cache, config, storage, uses, written>>
    /\ UNCHANGED appVars
    /\ UNCHANGED v1Vars

\* The render the refresh timer triggers every 400 ms (setRefreshTick): it calls
\* cache.getEntries(), then getSize() and getKeys(), the first of which sweeps.
CacheDemo_render ==
    /\ engine = V3
    /\ cache' = cleanupExpired(cache, now)
    /\ log' = ExpiredEvents(cache, now)
    /\ last' = Call("render", "", Undefined, FALSE, Len(cache'), Reverse(KeySeq(cache')))
    /\ uses' = Kept(uses, cache')
    /\ UNCHANGED <<engine, now, config, storage, written>>
    /\ UNCHANGED appVars
    /\ UNCHANGED v1Vars

\* ------------------------------------------------------------- TTLCache (v2)
RECURSIVE OldestFrom(_, _, _)
\* The scan of set: for (const [k, entry] of entries) if (entry.lastAccessAt <
\* oldestAccess) take it. best = 0 stands for lruKey = null (oldestAccess = Infinity).
OldestFrom(m, i, best) ==
    IF i > Len(m) THEN best
    ELSE OldestFrom(m, i + 1,
                    IF best = 0 \/ m[i].lastAccessAt < m[best].lastAccessAt THEN i ELSE best)

OldestKey(m) == m[OldestFrom(m, 1, 0)].key

\* set evicts only for a new key at capacity: !this.cache.has(key) && size >= maxSize.
NeedsEviction(m, key, cfg) == ~MapHas(m, key) /\ Len(m) >= cfg.maxSize /\ m # <<>>

TTLCache_loadFromStorage ==
    /\ cache' = IF storage.kind = "json" /\ ~LoadThrows(storage)
                THEN LoadInto(<<>>, storage.data, now)
                ELSE <<>>
    /\ log' = IF LoadThrows(storage) THEN <<Ev("parse-error", "", 0)>>
              ELSE <<Ev("loaded", "", Len(cache'))>>
    /\ uses' = Restored(uses, cache')
    /\ written' = Prune(written, now)
    /\ UNCHANGED <<now, storage>>
    /\ UNCHANGED appVars
    /\ UNCHANGED v1Vars

\* The config inputs call setConfig, whose effect constructs a new engine from the store.
CacheDemo_setConfig(cfg) ==
    /\ engine = V2
    /\ config' = cfg
    /\ TTLCache_loadFromStorage
    /\ last' = Call("new", "", Undefined, FALSE, 0, <<>>)
    /\ UNCHANGED engine

TTLCache_updateConfig(cfg) ==
    /\ engine = V2
    /\ config' = cfg
    /\ log' = <<>>
    /\ last' = Call("updateConfig", "", Undefined, FALSE, 0, <<>>)
    /\ UNCHANGED <<engine, now, cache, storage, uses, written>>
    /\ UNCHANGED appVars
    /\ UNCHANGED v1Vars

TTLCache_set(key, value, ttlMs, t2, ok) ==
    /\ engine = V2
    /\ LET swept == cleanupExpired(cache, now)
           ttl == ResolveTTL(ttlMs, config)
           entry == [key |-> key, value |-> value, expiresAt |-> t2 + ttl, lastAccessAt |-> t2]
           evict == NeedsEviction(swept, key, config)
           room == IF evict THEN MapDelete(swept, OldestKey(swept)) ELSE swept
           m == MapSet(room, key, entry)
       IN  /\ cache' = m
           /\ log' = ExpiredEvents(cache, now)
                        \o (IF evict THEN <<Ev("evicted", OldestKey(swept), 0)>> ELSE <<>>)
                        \o <<Ev("set", key, ttl)>> \o SaveEvents(m, ok)
           /\ storage' = SavedItem(m, ok)
           /\ uses' = Used(uses, key, m)
           /\ written' = Prune([k \in Keys |->
                            IF k = key THEN <<[value |-> value, expiresAt |-> t2 + ttl]>>
                            ELSE IF k \in KeysOf(swept) \ KeysOf(m) THEN <<>>
                            ELSE written[k]], t2)
    /\ now' = t2
    /\ last' = SetCall(key, ttlMs)
    /\ UNCHANGED <<engine, config>>
    /\ UNCHANGED appVars
    /\ UNCHANGED v1Vars

TTLCache_get(key, ok) ==
    /\ engine = V2
    /\ IF ~MapHas(cache, key)
       THEN /\ log' = <<Ev("miss", key, 0)>>
            /\ last' = Call("get", key, Undefined, FALSE, 0, <<>>)
            /\ UNCHANGED <<cache, storage, uses>>
       ELSE IF IsExpired(MapGet(cache, key), now)
       THEN /\ cache' = MapDelete(cache, key)
            /\ log' = <<Ev("expired", key, 0)>> \o SaveEvents(cache', ok)
            /\ storage' = SavedItem(cache', ok)
            /\ last' = Call("get", key, Undefined, FALSE, 0, <<>>)
            /\ uses' = Kept(uses, cache')
       ELSE /\ cache' = MapSet(cache, key, [MapGet(cache, key) EXCEPT !.lastAccessAt = now])
            /\ log' = <<Ev("hit", key, 0)>>
            /\ last' = Call("get", key, MapGet(cache, key).value, FALSE, 0, <<>>)
            /\ uses' = Used(uses, key, cache')
            /\ UNCHANGED storage
    /\ written' = Prune(written, now)
    /\ UNCHANGED <<engine, now, config>>
    /\ UNCHANGED appVars
    /\ UNCHANGED v1Vars

TTLCache_delete(key, ok) ==
    /\ engine = V2
    /\ LET deleted == MapHas(cache, key)
           m == MapDelete(cache, key)
       IN  /\ cache' = m
           /\ log' = IF deleted THEN <<Ev("set", key, 0)>> \o SaveEvents(m, ok) ELSE <<>>
           /\ storage' = IF deleted THEN SavedItem(m, ok) ELSE storage
           /\ last' = Call("delete", key, Undefined, deleted, 0, <<>>)
           /\ uses' = Kept(uses, m)
    /\ written' = [k \in Keys |-> IF k = key THEN <<>> ELSE written[k]]
    /\ UNCHANGED <<engine, now, config>>
    /\ UNCHANGED appVars
    /\ UNCHANGED v1Vars

TTLCache_clear(ok) ==
    /\ engine = V2
    /\ cache' = <<>>
    /\ log' = <<Ev("set", "", 0)>> \o SaveEvents(<<>>, ok)
    /\ storage' = SavedItem(<<>>, ok)
    /\ last' = Call("clear", "", Undefined, FALSE, 0, <<>>)
    /\ uses' = <<>>
    /\ written' = [k \in Keys |-> <<>>]
    /\ UNCHANGED <<engine, now, config>>
    /\ UNCHANGED appVars
    /\ UNCHANGED v1Vars

RECURSIVE SortMRU(_)
\* Array.prototype.sort by lastAccessAt, descending; the sort is stable.
SortMRU(m) ==
    IF m = <<>> THEN <<>>
    ELSE LET i == CHOOSE j \in DOMAIN m :
                    /\ \A l \in DOMAIN m : m[l].lastAccessAt <= m[j].lastAccessAt
                    /\ \A l \in 1 .. j - 1 : m[l].lastAccessAt < m[j].lastAccessAt
         IN  <<m[i]>> \o SortMRU(MapDelete(m, m[i].key))

TTLCache_getAll ==
    /\ engine = V2
    /\ log' = <<>>
    /\ last' = Call("getAll", "", Undefined, FALSE, 0, KeySeq(SortMRU(cache)))
    /\ UNCHANGED <<engine, now, cache, config, storage, uses, written>>
    /\ UNCHANGED appVars
    /\ UNCHANGED v1Vars

TTLCache_size ==
    /\ engine = V2
    /\ log' = <<>>
    /\ last' = Call("size", "", Undefined, FALSE, Len(cache), <<>>)
    /\ UNCHANGED <<engine, now, cache, config, storage, uses, written>>
    /\ UNCHANGED appVars
    /\ UNCHANGED v1Vars

TTLCache_has(key) ==
    /\ engine = V2
    /\ log' = <<>>
    /\ last' = Call("has", key, Undefined, MapHas(cache, key), 0, <<>>)
    /\ UNCHANGED <<engine, now, cache, config, storage, uses, written>>
    /\ UNCHANGED appVars
    /\ UNCHANGED v1Vars

\* ------------------------------------------------------------- the store
\* localStorage.setItem(storageKey, ...) by a caller other than the engine.
LocalStorage_setItem(item) ==
    /\ storage' = item
    /\ log' = <<>>
    /\ last' = Call("setItem", "", Undefined, FALSE, 0, <<>>)
    /\ UNCHANGED <<engine, now, cache, config, uses, written>>
    /\ UNCHANGED appVars
    /\ UNCHANGED v1Vars

\* ------------------------------------------------------------- the clock
Tick ==
    /\ now < MaxTime
    /\ now' = now + 1
    /\ log' = <<>>
    /\ last' = Call("tick", "", Undefined, FALSE, 0, <<>>)
    /\ written' = Prune(written, now')
    /\ UNCHANGED <<engine, cache, config, storage, uses>>
    /\ UNCHANGED appVars
    /\ UNCHANGED v1Vars

\* ------------------------------------------------------------- table App (v3)
\* The columns of the table: SortKey = keyof Employee.
SortKeys == {"id", "name", "department", "city", "salary", "startDate"}

\* SortDirection = 'asc' | 'desc' | null.
Null == "null"

\* prev.find(s => s.key === key), as the entries of prev with that key.
FindSort(prev, key) == SelectSeq(prev, LAMBDA x : x.key = key)

\* .filter(s => s.direction)
ActiveSorts(st) == SelectSeq(st, LAMBDA x : x.direction # Null)

\* A slip: a second click removes the sort, so descending is never reached.
ToggleSort_noDesc(prev, key) ==
    IF FindSort(prev, key) = <<>>
    THEN Append(prev, [key |-> key, direction |-> "asc",
                       priority |-> Len(ActiveSorts(prev)) + 1])
    ELSE SelectSeq(prev, LAMBDA x : x.key # key)

\* handleSort's if / else chain: a new key is appended ascending, ascending
\* becomes descending, descending is removed, a null direction becomes ascending.
ToggleSort(prev, key) ==
    LET existing == FindSort(prev, key)
    IN  IF existing = <<>>
        THEN Append(prev, [key |-> key, direction |-> "asc",
                           priority |-> Len(ActiveSorts(prev)) + 1])
        ELSE IF existing[1].direction = "asc"
        THEN [i \in DOMAIN prev |->
                 IF prev[i].key = key THEN [prev[i] EXCEPT !.direction = "desc"] ELSE prev[i]]
        ELSE IF existing[1].direction = "desc"
        THEN SelectSeq(prev, LAMBDA x : x.key # key)
        ELSE [i \in DOMAIN prev |->
                 IF prev[i].key = key THEN [prev[i] EXCEPT !.direction = "asc"] ELSE prev[i]]

\* A slip: the newest of three active sorts removed instead of the oldest.
DropOldest_newest(st) ==
    IF Len(ActiveSorts(st)) > 2
    THEN SelectSeq(st, LAMBDA x : x.key # ActiveSorts(st)[Len(ActiveSorts(st))].key)
    ELSE st

\* if (activeSorts.length > 2) remove activeSorts[0].key
DropOldest(st) ==
    IF Len(ActiveSorts(st)) > 2
    THEN SelectSeq(st, LAMBDA x : x.key # ActiveSorts(st)[1].key)
    ELSE st

\* let priority = 1; newState.map(s => s.direction ? {...s, priority: priority++} : s)
Renumber(st) ==
    [i \in DOMAIN st |->
        IF st[i].direction # Null
        THEN [st[i] EXCEPT !.priority = Len(ActiveSorts(SubSeq(st, 1, i)))]
        ELSE st[i]]

\* A header click: setSortState, setPage(1), setLastAction.
App_handleSort(key) ==
    /\ sortState' = Renumber(DropOldest(ToggleSort(sortState, key)))
    /\ page' = 1
    /\ lastAction' = <<"Sorted", key>>
    /\ activated' =
          SelectSeq(IF \E i \in DOMAIN activated : activated[i] = key
                    THEN activated ELSE Append(activated, key),
                    LAMBDA k : ActiveSorts(FindSort(sortState', k)) # <<>>)
    /\ UNCHANGED <<cacheVars, v1Vars, allData, filterQuery, pageSize, isCustomPageSize,
                   customPageSizeInput, importError>>

\* The App as mounted: no sort, page 1, nothing loaded.
InitApp ==
    /\ sortState = <<>>
    /\ page = 1
    /\ lastAction = <<"No data loaded">>
    /\ activated = <<>>
    /\ allData = <<>>
    /\ filterQuery = <<>>
    /\ pageSize = 10
    /\ isCustomPageSize = FALSE
    /\ customPageSizeInput = <<>>
    /\ importError = ""

\* CacheSystem as mounted: an empty Map, maxSize 5.
InitCacheSystem ==
    /\ v1Cache = <<>>
    /\ v1Ref = <<>>
    /\ v1Queue = <<>>
    /\ v1MaxSize = 5
    /\ v1MaxSizeNext = 5
    /\ v1Last = [op |-> "new", key |-> "", ret |-> ""]

NextApp == \E key \in SortKeys : App_handleSort(key)

\* ------------------------------------------------------------- table App: rows and pages
\* Text is a sequence of characters. toLowerCase over the letters the rows and
\* the queries use.
toLowerCase(s) ==
    [i \in DOMAIN s |->
        CASE s[i] = "E" -> "e" [] s[i] = "S" -> "s" [] s[i] = "R" -> "r"
          [] s[i] = "A" -> "a" [] s[i] = "B" -> "b" [] s[i] = "C" -> "c"
          [] OTHER -> s[i]]

\* String.prototype.includes
includes(s, q) == \E i \in 0 .. Len(s) - Len(q) : SubSeq(s, i + 1, i + Len(q)) = q

\* String.prototype.trim
trim(q) ==
    LET idx == {i \in DOMAIN q : q[i] # " "}
    IN  IF idx = {} THEN <<>>
        ELSE SubSeq(q, CHOOSE i \in idx : \A j \in idx : i <= j,
                       CHOOSE i \in idx : \A j \in idx : i >= j)

\* An Employee; String(row[col]) is the text of the cell.
Employee(id, name, city) ==
    [id |-> id, name |-> name, department |-> <<"o", "p", "s">>, city |-> city,
     salary |-> <<"9", "0">>, startDate |-> <<"2", "0", "2", "0">>]

RowsImported ==
    <<Employee(<<"E", "1">>, <<"A", "l">>, <<"S", "e", "a">>),
      Employee(<<"E", "2">>, <<"B", "o">>, <<"R", "e", "n", "o">>),
      Employee(<<"E", "3">>, <<"C", "y">>, <<"S", "e", "a">>),
      Employee(<<"E", "4">>, <<"A", "b">>, <<"R", "e", "n", "o">>),
      Employee(<<"E", "5">>, <<"B", "c">>, <<"S", "e", "a">>)>>

\* What the import box may hold: text that is not JSON, JSON that is not an
\* array, an array with a row that lacks a field, and arrays of 0, 3 and 5 rows.
ImportTexts ==
    {[kind |-> "text", data |-> <<>>],
     [kind |-> "object", data |-> <<>>],
     [kind |-> "array", data |-> <<[id |-> <<"E", "9">>, name |-> <<"A", "l">>]>>],
     [kind |-> "array", data |-> <<>>],
     [kind |-> "array", data |-> SubSeq(RowsImported, 1, 3)],
     [kind |-> "array", data |-> RowsImported]}

\* What the user types in the filter box.
Queries == {<<>>, <<" ">>, <<"s", "e">>, <<"E">>, <<"z">>}

\* The page-size select (<<>> is its "Custom..." option) and what the user
\* types in the custom box (<<>> is text parseInt turns into NaN).
SelectSizes == {<<10>>, <<25>>, <<>>}
CustomInputs == {<<>>, <<0>>, <<1>>, <<2>>}

\* filterRows(rows, query, columns)
filterRows(rows, query, columns) ==
    IF trim(query) = <<>> THEN rows
    ELSE SelectSeq(rows, LAMBDA row :
            \E col \in columns : includes(toLowerCase(row[col]), toLowerCase(query)))

filteredData == filterRows(allData, filterQuery, SortKeys)

\* Math.ceil(n / size)
totalPagesOf(n, size) == (n + size - 1) \div size

totalPages == totalPagesOf(Len(filteredData), pageSize)

Max(a, b) == IF a >= b THEN a ELSE b

Min(a, b) == IF a <= b THEN a ELSE b

\* What a page-level handler leaves alone.
App_pageFrame ==
    UNCHANGED <<cacheVars, v1Vars, sortState, lastAction, activated, allData, filterQuery,
                pageSize, isCustomPageSize, customPageSizeInput, importError>>

\* Previous: setPage(p => Math.max(1, p - 1)), disabled when page === 1.
App_previousPage ==
    /\ page # 1
    /\ page' = Max(1, page - 1)
    /\ App_pageFrame

\* A page button: the buttons are 1 .. Math.min(totalPages, 10).
App_pageButton(p) ==
    /\ p \in 1 .. Min(totalPages, 10)
    /\ page' = p
    /\ App_pageFrame

\* Next: setPage(p => Math.min(totalPages, p + 1)), disabled when page === totalPages.
App_nextPage ==
    /\ page # totalPages
    /\ page' = Min(totalPages, page + 1)
    /\ App_pageFrame

App_handleFilterChange(query) ==
    /\ filterQuery' = query
    /\ page' = 1
    /\ lastAction' = IF query # <<>> THEN <<"Filtered", query>> ELSE <<"Cleared filter">>
    /\ UNCHANGED <<cacheVars, v1Vars, sortState, activated, allData, pageSize,
                   isCustomPageSize, customPageSizeInput, importError>>

App_handlePageSizeChange(newSize) ==
    /\ IF newSize = <<>>
       THEN /\ isCustomPageSize' = TRUE
            /\ customPageSizeInput' = <<pageSize>>
            /\ UNCHANGED <<pageSize, page, lastAction>>
       ELSE /\ isCustomPageSize' = FALSE
            /\ pageSize' = newSize[1]
            /\ page' = 1
            /\ lastAction' = <<"Changed page size to", newSize[1]>>
            /\ UNCHANGED customPageSizeInput
    /\ UNCHANGED <<cacheVars, v1Vars, sortState, activated, allData, filterQuery, importError>>

\* Typing in the custom box: setCustomPageSizeInput(e.target.value).
App_typeCustomPageSize(text) ==
    /\ isCustomPageSize
    /\ customPageSizeInput' = text
    /\ UNCHANGED <<cacheVars, v1Vars, sortState, page, lastAction, activated, allData,
                   filterQuery, pageSize, isCustomPageSize, importError>>

\* The custom box's cancel button and Escape: setIsCustomPageSize(false).
App_cancelCustomPageSize ==
    /\ isCustomPageSize
    /\ isCustomPageSize' = FALSE
    /\ UNCHANGED <<cacheVars, v1Vars, sortState, page, lastAction, activated, allData,
                   filterQuery, pageSize, customPageSizeInput, importError>>

App_handleCustomPageSizeSubmit ==
    /\ isCustomPageSize
    /\ LET val == customPageSizeInput
       IN  IF val # <<>> /\ val[1] > 0 /\ val[1] <= 1000
           THEN /\ pageSize' = val[1]
                /\ page' = 1
                /\ lastAction' = <<"Changed page size to", val[1], "(custom)">>
           ELSE UNCHANGED <<pageSize, page, lastAction>>
    /\ UNCHANGED <<cacheVars, v1Vars, sortState, activated, allData, filterQuery,
                   isCustomPageSize, customPageSizeInput, importError>>

App_handleImport(importText) ==
    /\ IF importText.kind = "text"
       THEN /\ importError' = "Invalid JSON format"
            /\ UNCHANGED <<allData, page, lastAction>>
       ELSE IF importText.kind # "array"
       THEN /\ importError' = "Data must be an array"
            /\ UNCHANGED <<allData, page, lastAction>>
       ELSE IF \E i \in DOMAIN importText.data : \E field \in SortKeys :
                  field \notin DOMAIN importText.data[i]
       THEN /\ importError' = "Missing required field"
            /\ UNCHANGED <<allData, page, lastAction>>
       ELSE /\ allData' = importText.data
            /\ importError' = ""
            /\ page' = 1
            /\ lastAction' = <<"Imported", Len(importText.data), "rows">>
    /\ UNCHANGED <<cacheVars, v1Vars, sortState, activated, filterQuery, pageSize,
                   isCustomPageSize, customPageSizeInput>>

\* The "clear all" button.
App_handleLoadSample ==
    /\ allData' = <<>>
    /\ importError' = ""
    /\ page' = 1
    /\ sortState' = <<>>
    /\ filterQuery' = <<>>
    /\ lastAction' = <<"Cleared all data">>
    /\ activated' = <<>>
    /\ UNCHANGED <<cacheVars, v1Vars, pageSize, isCustomPageSize, customPageSizeInput>>

\* The clicks and inputs of the table App other than the sort headers.
NextPage ==
    \/ App_previousPage
    \/ \E p \in 1 .. 10 : App_pageButton(p)
    \/ App_nextPage
    \/ \E query \in Queries : App_handleFilterChange(query)
    \/ \E newSize \in SelectSizes : App_handlePageSizeChange(newSize)
    \/ \E text \in CustomInputs : App_typeCustomPageSize(text)
    \/ App_cancelCustomPageSize
    \/ App_handleCustomPageSizeSubmit
    \/ \E importText \in ImportTexts : App_handleImport(importText)
    \/ App_handleLoadSample

\* ------------------------------------------------------------- CacheSystem (v1)
\* The first demo keeps the Map in React state (cache) and reads it through
\* cacheRef, which an effect sets to the state after each render. setCache(m)
\* queues m; the next render takes the last queued value.
V1Keys == {"a", "b"}
\* The value the callers store under each key, and the ttlMs they pass.
V1ValueFor(k) == IF k = "a" THEN "1" ELSE "2"
V1TTLArgs == {<<>>, <<1>>}
V1MaxSizes == {1, 5}
\* The updates already queued when a handler is called.
V1Pending == {0, 1}

V1Call(op, key, ret) == [op |-> op, key |-> key, ret |-> ret]

\* setCache(m), called by the handler call c.
V1Queued(c, m) == Append(v1Queue, [call |-> c, map |-> m])

RECURSIVE V1OldestFrom(_, _, _)
\* evictLRU's scan: forEach entry, if (entry.lastAccessed < oldestTime) take it.
V1OldestFrom(m, i, best) ==
    IF i > Len(m) THEN best
    ELSE V1OldestFrom(m, i + 1,
                      IF best = 0 \/ m[i].lastAccessed < m[best].lastAccessed THEN i ELSE best)

\* evictLRU(currentCache): delete the key with the smallest lastAccessed.
evictLRU(m) == IF m = <<>> THEN m ELSE MapDelete(m, m[V1OldestFrom(m, 1, 0)].key)

\* The Map setCacheValue builds from the Map it read.
V1SetInto(base, k, v, ttlMs, t) ==
    LET room == IF ~MapHas(base, k) /\ Len(base) >= v1MaxSize THEN evictLRU(base) ELSE base
        expiry == IF ttlMs # <<>> /\ ttlMs[1] # 0 THEN <<t + ttlMs[1]>> ELSE <<>>
    IN  MapSet(room, k, [key |-> k, value |-> v, expiry |-> expiry, lastAccessed |-> t])

V1Frame == UNCHANGED <<cacheVars, appVars>>

\* setCacheValue(k, v, ttlMs): new Map(cacheRef.current), evict, set, setCache.
CacheSystem_setCacheValue(k, v, ttlMs) ==
    /\ Len(v1Queue) \in V1Pending
    /\ IF k = ""
       THEN /\ v1Last' = V1Call("set", k, "error")
            /\ UNCHANGED v1Queue
       ELSE /\ v1Queue' = V1Queued(V1Call("set", k, v), V1SetInto(v1Ref, k, v, ttlMs, now))
            /\ v1Last' = V1Call("set", k, v)
    /\ UNCHANGED <<v1Cache, v1Ref, v1MaxSize, v1MaxSizeNext>>
    /\ V1Frame

CacheSystem_getCacheValue(k) ==
    /\ Len(v1Queue) \in V1Pending
    /\ IF k = ""
       THEN /\ v1Last' = V1Call("get", k, "error")
            /\ UNCHANGED v1Queue
       ELSE IF ~MapHas(v1Ref, k)
       THEN /\ v1Last' = V1Call("get", k, Null)
            /\ UNCHANGED v1Queue
       ELSE LET entry == MapGet(v1Ref, k)
            IN  IF entry.expiry # <<>> /\ now > entry.expiry[1]
                THEN /\ v1Queue' = V1Queued(V1Call("get", k, Null), MapDelete(v1Ref, k))
                     /\ v1Last' = V1Call("get", k, Null)
                ELSE /\ v1Queue' = V1Queued(V1Call("get", k, entry.value),
                                            MapSet(v1Ref, k, [entry EXCEPT !.lastAccessed = now]))
                     /\ v1Last' = V1Call("get", k, entry.value)
    /\ UNCHANGED <<v1Cache, v1Ref, v1MaxSize, v1MaxSizeNext>>
    /\ V1Frame

CacheSystem_deleteCacheValue(k) ==
    /\ Len(v1Queue) \in V1Pending
    /\ IF k # "" /\ MapHas(v1Ref, k)
       THEN v1Queue' = V1Queued(V1Call("delete", k, "removed"), MapDelete(v1Ref, k))
       ELSE UNCHANGED v1Queue
    /\ v1Last' = V1Call("delete", k, IF k = "" THEN "error"
                                     ELSE IF MapHas(v1Ref, k) THEN "removed" ELSE "not found")
    /\ UNCHANGED <<v1Cache, v1Ref, v1MaxSize, v1MaxSizeNext>>
    /\ V1Frame

\* clearCache: setCache(new Map()).
CacheSystem_clearCache ==
    /\ Len(v1Queue) \in V1Pending
    /\ v1Queue' = V1Queued(V1Call("clear", "", ""), <<>>)
    /\ v1Last' = V1Call("clear", "", "")
    /\ UNCHANGED <<v1Cache, v1Ref, v1MaxSize, v1MaxSizeNext>>
    /\ V1Frame

\* The max-size input: setMaxSize(Math.max(1, parseInt(value) || 1)).
CacheSystem_setMaxSize(n) ==
    /\ v1MaxSizeNext' = n
    /\ UNCHANGED <<v1Cache, v1Ref, v1Queue, v1MaxSize, v1Last>>
    /\ V1Frame

\* A render and the effect that follows it: the state takes the last queued
\* Map and the pending maxSize, then cacheRef.current = cache.
CacheSystem_render ==
    /\ v1Queue # <<>> \/ v1MaxSizeNext # v1MaxSize
    /\ v1Cache' = IF v1Queue = <<>> THEN v1Cache ELSE v1Queue[Len(v1Queue)].map
    /\ v1Ref' = v1Cache'
    /\ v1Queue' = <<>>
    /\ v1MaxSize' = v1MaxSizeNext
    /\ UNCHANGED <<v1MaxSizeNext, v1Last>>
    /\ V1Frame

\* The clock of the v1 demo.
CacheSystem_tick ==
    /\ now < MaxTime
    /\ now' = now + 1
    /\ UNCHANGED <<engine, cache, config, storage, log, last, uses, written>>
    /\ UNCHANGED <<appVars, v1Vars>>

NextV1 ==
    \/ \E k \in V1Keys, ttlMs \in V1TTLArgs : CacheSystem_setCacheValue(k, V1ValueFor(k), ttlMs)
    \/ \E k \in V1Keys : CacheSystem_getCacheValue(k)
    \/ \E k \in V1Keys : CacheSystem_deleteCacheValue(k)
    \/ CacheSystem_clearCache
    \/ \E n \in V1MaxSizes : CacheSystem_setMaxSize(n)
    \/ CacheSystem_render
    \/ CacheSystem_tick

\* ------------------------------------------------------------- specification
InitV3 ==
    /\ engine = V3
    /\ now = 0
    /\ cache = <<>>
    /\ config = DefaultConfig
    /\ storage = NullItem
    /\ log = <<>>
    /\ last = Call("new", "", Undefined, FALSE, 0, <<>>)
    /\ uses = <<>>
    /\ written = [k \in Keys |-> <<>>]
    /\ InitApp
    /\ InitCacheSystem

\* The calls a caller makes on the v3 engine with keys drawn from Ks and
\* localStorage writes that succeed as Ws says.
NextV3(Ks, Ws) ==
    \/ \E cfg \in Configs : CacheDemo_handleApplyConfig(cfg)
    \/ \E key \in Ks : \E value \in ValuesFor(key), ttlMs \in TTLArgs, t2 \in Later(now), ok \in Ws :
          TTLLRUCache_set(key, value, ttlMs, t2, ok)
    \/ \E key \in Ks, t2 \in Later(now) : TTLLRUCache_get(key, t2)
    \/ \E key \in Ks, ok \in Ws : TTLLRUCache_delete(key, ok)
    \/ \E ok \in Ws : TTLLRUCache_clear(ok)
    \/ TTLLRUCache_getEntries
    \/ TTLLRUCache_getSize
    \/ TTLLRUCache_getKeys
    \/ \E key \in Ks : TTLLRUCache_has(key)
    \/ Tick

InitV2 ==
    /\ engine = V2
    /\ now = 0
    /\ cache = <<>>
    /\ config = DefaultConfig
    /\ storage = NullItem
    /\ log = <<Ev("loaded", "", 0)>>
    /\ last = Call("new", "", Undefined, FALSE, 0, <<>>)
    /\ uses = <<>>
    /\ written = [k \in Keys |-> <<>>]
    /\ InitApp
    /\ InitCacheSystem

\* The calls a caller makes on the v2 engine with keys drawn from Ks and
\* localStorage writes that succeed as Ws says.
NextV2(Ks, Ws) ==
    \/ \E cfg \in Configs : CacheDemo_setConfig(cfg)
    \/ \E cfg \in Configs : TTLCache_updateConfig(cfg)
    \/ \E key \in Ks, value \in ValuesV2, ttlMs \in TTLArgsV2, t2 \in Later(now), ok \in Ws :
          TTLCache_set(key, value, ttlMs, t2, ok)
    \/ \E key \in Ks, ok \in Ws : TTLCache_get(key, ok)
    \/ \E key \in Ks, ok \in Ws : TTLCache_delete(key, ok)
    \/ \E ok \in Ws : TTLCache_clear(ok)
    \/ TTLCache_getAll
    \/ TTLCache_size
    \/ \E key \in Ks : TTLCache_has(key)
    \/ Tick

\* The v3 demo (TTLLRUCache).
Spec == InitV3 /\ [][NextV3(Keys, Writes)]_vars

\* The v2 demo (TTLCache).
SpecV2 == InitV2 /\ [][NextV2(Keys, Writes)]_vars

\* Either demo, its callers using two keys.
SpecBoth ==
    /\ InitV3 \/ InitV2
    /\ [][NextV3(TwoKeys, Writes) \/ NextV2(TwoKeys, Writes)]_vars

\* The calls made on the v3 engine over a store whose writes may fail.
NextV3IO ==
    \/ \E cfg \in Configs : CacheDemo_handleApplyConfig(cfg)
    \/ \E key \in TwoKeys, value \in ValuesIO, ttlMs \in TTLArgsIO, ok \in WritesIO :
          TTLLRUCache_set(key, value, ttlMs, now, ok)
    \/ \E key \in TwoKeys, ok \in WritesIO : TTLLRUCache_delete(key, ok)
    \/ \E ok \in WritesIO : TTLLRUCache_clear(ok)
    \/ TTLLRUCache_getSize

\* The same on the v2 engine.
NextV2IO ==
    \/ \E cfg \in Configs : CacheDemo_setConfig(cfg)
    \/ \E key \in TwoKeys, value \in ValuesIO, ttlMs \in TTLArgsIO, ok \in WritesIO :
          TTLCache_set(key, value, ttlMs, now, ok)
    \/ \E key \in TwoKeys, ok \in WritesIO : TTLCache_delete(key, ok)
    \/ \E ok \in WritesIO : TTLCache_clear(ok)

\* The v3 demo with its refresh timer, which keeps firing.
NextTimer == NextV3(TwoKeys, Writes) \/ CacheDemo_render

SpecTimer ==
    /\ InitV3
    /\ [][NextTimer]_vars
    /\ WF_vars(CacheDemo_render)

\* The v3 engine called directly, as runAllTests does, by a caller whose keys
\* include the empty string.
SpecEmptyKey ==
    InitV3 /\ [][NextV3(KeysWithEmpty, Writes)]_vars

\* The v3 table App under header clicks.
SpecApp == InitV3 /\ [][NextApp]_vars

\* The v1 demo (CacheSystem).
SpecV1 == InitV3 /\ [][NextV1]_vars

\* The v3 table App under its other clicks and inputs, and clicks on one header.
SpecPage == InitV3 /\ [][NextPage \/ App_handleSort("salary")]_vars

\* Either demo over a store whose writes may fail and whose item another
\* writer may replace.
SpecIO ==
    /\ InitV3 \/ InitV2
    /\ [][\/ NextV3IO
          \/ NextV2IO
          \/ \E item \in ForeignItems(engine) : LocalStorage_setItem(item)
          \/ Tick]_vars

\* ------------------------------------------------------------- claims
\* An entry is live iff now < expiresAt.
LiveAt(m, t) == SelectSeq(m, LAMBDA e : t < e.expiresAt)

\* C1: after any set of TTLLRUCache returns, the resident count is at most
\* config.maxSize, also in an engine constructed from a snapshot that was
\* persisted under a larger maxSize.
C1_SetKeepsWithinMaxSize ==
    (engine = V3 /\ last.op = "set") => Len(cache) <= config.maxSize

\* C2: when TTLLRUCache.set inserts a non-resident key at capacity, the one key
\* it removes (and names in its 'evicted' event) is the resident live key whose
\* most recent use, a set or a get hit, is the oldest; the key a get hit or a
\* set has just used is not that key when another live key is resident.
C2_EvictsLeastRecentlyUsed ==
    [][(/\ engine = V3
        /\ last'.op = "set"
        /\ ~MapHas(LiveAt(cache, now), last'.key)
        /\ Len(LiveAt(cache, now)) >= config.maxSize)
       => LET live == LiveAt(cache, now)
              oldest == Kept(uses, live)[1]
          IN  /\ KeysOf(live) \ KeysOf(cache') = {oldest}
              /\ EventKeys(log', "evicted") = {oldest}
              /\ (last.op \in {"get", "set"} /\ MapHas(live, last.key) /\ Len(live) > 1)
                 => last.key # oldest]_vars

\* C2 witness: with maxSize 2, after A was used later than B, the set of C
\* removed B and kept A and C.
C2_Witness ==
    /\ engine = V3 /\ last.op = "set" /\ last.key = "C" /\ config.maxSize = 2
    /\ KeySeq(cache) = <<"A", "C">>
    /\ EventKeys(log, "evicted") = {"B"}

\* C3: a set of a non-resident key made when the resident count after the sweep
\* equals maxSize removes exactly one entry, never the key written, emits
\* exactly one 'evicted' event naming it, and returns with the count equal to
\* maxSize; a set made when that count is below maxSize removes no live entry
\* and emits no 'evicted' event.
C3_OverflowEvictsExactlyOne ==
    [][(engine = V3 /\ last'.op = "set")
       => LET live == LiveAt(cache, now)
              gone == KeysOf(live) \ KeysOf(cache')
          IN  /\ (~MapHas(live, last'.key) /\ Len(live) = config.maxSize)
                 => /\ Cardinality(gone) = 1
                    /\ MapHas(cache', last'.key)
                    /\ Count(log', "evicted") = 1
                    /\ EventKeys(log', "evicted") = gone
                    /\ Len(cache') = config.maxSize
              /\ Len(live) < config.maxSize
                 => /\ gone = {}
                    /\ Count(log', "evicted") = 0]_vars

\* C3 witness: a set at capacity that evicted one entry and returned full.
C3_Witness ==
    /\ engine = V3 /\ last.op = "set"
    /\ Count(log, "evicted") = 1
    /\ Len(cache) = config.maxSize /\ config.maxSize = 2

\* C4: get(k) returns the value of the most recent set(k, ...) when since that
\* set there was no delete(k), no clear, no eviction of k and the clock is
\* still below the expiresAt that set stored; otherwise it returns undefined.
C4_GetReturnsLatestSet ==
    (engine = V3 /\ last.op = "get")
    => last.ret = IF written[last.key] # <<>> THEN written[last.key][1].value ELSE Undefined

\* C4 witness: a get of A, after the clock moved, returned the value "2".
C4_Witness ==
    /\ engine = V3 /\ last.op = "get" /\ last.key = "A" /\ last.ret = "2" /\ now >= 1

\* C5: in both engines get(k) never returns a value once now >= expiresAt(k),
\* the instant now = expiresAt included: that get reports k absent and removes
\* it, and a size() that follows does not count it.
C5_GetNeverReturnsExpired ==
    [][/\ last'.op = "get"
          => LET k == last'.key
             IN  /\ last'.ret # Undefined
                    => MapHas(cache', k) /\ now' < MapGet(cache', k).expiresAt
                 /\ (MapHas(cache, k) /\ now' >= MapGet(cache, k).expiresAt)
                    => last'.ret = Undefined /\ ~MapHas(cache', k)
       /\ (last.op = "get" /\ last.key \in EventKeys(log, "expired") /\ last'.op = "size")
          => ~MapHas(cache', last.key) /\ last'.n = Len(cache')]_vars

\* C5 witness: a get made at the instant now = expiresAt (the entry is still in
\* the persisted snapshot) reported the key absent and removed it.
C5_Witness ==
    /\ last.op = "get" /\ last.ret = Undefined
    /\ last.key \in EventKeys(log, "expired")
    /\ ~MapHas(cache, last.key)
    /\ engine = V3
    /\ \E i \in DOMAIN storage.data :
          storage.data[i][1] = last.key /\ storage.data[i][2].expiresAt = now

\* C6: every set begins with a sweep: when it returns, every resident entry
\* other than the one written is live at the clock value the sweep read, and
\* exactly one 'expired' event was emitted for each entry that was not.
C6_SetSweepsFirst ==
    [][(engine = V3 /\ last'.op = "set")
       => LET dead == {i \in DOMAIN cache : now >= cache[i].expiresAt}
          IN  /\ \A i \in DOMAIN cache' :
                    cache'[i].key # last'.key => now < cache'[i].expiresAt
              /\ EventKeys(log', "expired") = {cache[i].key : i \in dead}
              /\ Count(log', "expired") = Cardinality(dead)]_vars

\* C6 witness: a set of B swept the expired A.
C6_Witness ==
    /\ engine = V3 /\ last.op = "set" /\ last.key = "B"
    /\ EventKeys(log, "expired") = {"A"}
    /\ ~MapHas(cache, "A")

\* C7: size() returns exactly the number of resident keys k with
\* now < expiresAt(k), in TTLLRUCache.getSize and in TTLCache.size.
C7_SizeCountsLiveEntries ==
    last.op = "size" => last.n = Len(LiveAt(cache, now))

\* C8: has(k) is true iff k is resident and now < expiresAt(k), in
\* TTLLRUCache.has and in TTLCache.has.
C8_HasIffResidentAndLive ==
    last.op = "has" => (last.flag <=> MapHas(LiveAt(cache, now), last.key))

\* C9: set(k, ...) on a key that is resident and live removes no other live
\* entry, emits no 'evicted' event and leaves the count of live resident
\* entries unchanged, whatever that count is relative to maxSize.
C9_OverwriteEvictsNothing ==
    [][(engine = V3 /\ last'.op = "set" /\ MapHas(LiveAt(cache, now), last'.key))
       => /\ KeysOf(LiveAt(cache, now)) \subseteq KeysOf(cache')
          /\ Count(log', "evicted") = 0
          /\ Len(cache') = Len(LiveAt(cache, now))]_vars

\* C10: set(k, v, ttl) stores expiresAt = now + ttl for every given ttl, 0
\* included, and now + config.defaultTTLms when ttl is omitted; after
\* set(k, v, 0) neither get(k) nor has(k) reports k, even at the same clock value.
C10_TTLResolution ==
    [][(engine = V3)
       => /\ last'.op = "set"
             => /\ MapHas(cache', last'.key)
                /\ MapGet(cache', last'.key).expiresAt
                     = now' + (IF last'.ttlMs = <<>> THEN config.defaultTTLms
                               ELSE last'.ttlMs[1])
          /\ (/\ last'.op \in {"get", "has"}
              /\ \/ last.op = "set" /\ last.ttlMs = <<0>> /\ last.key = last'.key
                 \/ MapHas(cache, last'.key) /\ MapGet(cache, last'.key).expiresAt <= now)
             => last'.ret = Undefined /\ last'.flag = FALSE]_vars

\* C10 witness: a set with ttl 0 stored expiresAt = now.
C10_Witness ==
    /\ engine = V3 /\ last.op = "set" /\ last.ttlMs = <<0>>
    /\ MapGet(cache, last.key).expiresAt = now

\* C11: when a set, a delete that removed a key, or a clear of TTLLRUCache
\* returns and the store took the write, the item under storageKey is the
\* serialization of exactly the resident entries, in their order, with the
\* same keys, values and expiresAt.
C11_SnapshotMatchesResident ==
    (/\ engine = V3
     /\ last.op \in {"set", "clear"} \/ (last.op = "delete" /\ last.flag)
     /\ Count(log, "parse-error") = 0)
    => /\ storage.kind = "json"
       /\ Len(storage.data) = Len(cache)
       /\ \A i \in DOMAIN cache :
             /\ storage.data[i][1] = cache[i].key
             /\ storage.data[i][2].value = cache[i].value
             /\ storage.data[i][2].expiresAt = cache[i].expiresAt
       /\ Count(log, "saved") = 1

\* C11 witness: a delete removed one of two keys and the snapshot holds the other.
C11_Witness ==
    /\ engine = V3 /\ last.op = "delete" /\ last.flag
    /\ Len(cache) = 1 /\ Len(storage.data) = 1
    /\ storage.data[1][1] = cache[1].key

\* C12: when the item under storageKey is the snapshot of the engine's
\* entries (the state a successful save leaves, which the clock alone does not
\* change) and a fresh TTLLRUCache is constructed on it, the fresh engine holds
\* exactly the first engine's entries, by key and value, that are live at
\* construction time; those whose expiresAt the clock has reached since the
\* save are not restored.
C12_RoundTripRestoresLive ==
    [][(engine = V3 /\ last'.op = "new" /\ storage = Stringify(cache))
       => LET live == LiveAt(cache, now)
          IN  /\ {<<cache'[i].key, cache'[i].value>> : i \in DOMAIN cache'}
                   = {<<live[i].key, live[i].value>> : i \in DOMAIN live}
              /\ Len(cache') = Len(live)
              /\ \A i \in DOMAIN cache : now >= cache[i].expiresAt
                    => ~MapHas(cache', cache[i].key)]_vars

\* C12 witness: of two saved entries the fresh engine restored the one still
\* live and left out the one that expired after the save.
C12_Witness ==
    /\ engine = V3 /\ last.op = "new"
    /\ Len(storage.data) = 2 /\ Len(cache) = 1
    /\ \E i \in DOMAIN storage.data :
          /\ storage.data[i][2].expiresAt <= now
          /\ storage.data[i][2].expiresAt > 0
          /\ ~MapHas(cache, storage.data[i][1])

\* C13: constructing a TTLLRUCache when the item under storageKey is not a
\* well-formed snapshot (text JSON.parse rejects, JSON that is not a list of
\* pairs, a list with a malformed element after valid ones) yields an empty
\* resident set and emits exactly one 'parse-error' event.
C13_MalformedStartsEmpty ==
    (engine = V3 /\ last.op = "new" /\ LoadThrows(storage))
    => cache = <<>> /\ Count(log, "parse-error") = 1

\* C14: a set, a delete of a resident key or a clear, in either engine, makes
\* one write attempt with one outcome logged, 'saved' or 'parse-error'; when
\* the write fails the call still returns, the stored item is left as it was,
\* 'parse-error' is logged in place of 'saved', and the Map holds the result of
\* the mutation: the key written with its new expiresAt, the key deleted gone
\* and the others kept, or nothing after clear.
C14_WriteFailureKeepsMemory ==
    [][(last'.op \in {"set", "clear"} \/ (last'.op = "delete" /\ last'.flag))
       => /\ Count(log', "saved") + Count(log', "parse-error") = 1
          /\ Count(log', "saved") = 0
             => /\ storage' = storage
                /\ last'.op = "set"
                   => /\ MapHas(cache', last'.key)
                      /\ MapGet(cache', last'.key).expiresAt
                           = now' + ResolveTTL(last'.ttlMs, config)
                /\ last'.op = "delete"
                   => /\ MapHas(cache, last'.key)
                      /\ cache' = MapDelete(cache, last'.key)
                /\ last'.op = "clear" => cache' = <<>>]_vars

\* C14 witness: a set whose write failed: 'parse-error' logged, the key in the
\* Map, nothing ever stored.
C14_Witness ==
    /\ last.op = "set" /\ Count(log, "parse-error") = 1 /\ Count(log, "saved") = 0
    /\ MapHas(cache, last.key)
    /\ storage = NullItem

\* C15: TTLLRUCache.delete(k) on a key that is not resident returns false and
\* leaves the Map, its order and the stored item as they were, and logs
\* nothing, so a second such call does the same; on a resident key it returns
\* true, removes k alone, keeps the other entries in their order and stores
\* the new state.
C15_DeleteFrame ==
    [][(engine = V3 /\ last'.op = "delete")
       => /\ ~MapHas(cache, last'.key)
             => /\ last'.flag = FALSE
                /\ cache' = cache
                /\ storage' = storage
                /\ log' = <<>>
          /\ MapHas(cache, last'.key)
             => /\ last'.flag = TRUE
                /\ cache' = SelectSeq(cache, LAMBDA e : e.key # last'.key)
                /\ Len(cache') = Len(cache) - 1
                /\ storage' = Stringify(cache')
          /\ (last.op = "delete" /\ last.key = last'.key)
             => last'.flag = FALSE /\ cache' = cache /\ storage' = storage]_vars

\* C15 witness: a delete of a key that was not resident returned false beside a
\* resident entry, while the stored item still holds an older order.
C15_Witness ==
    /\ engine = V3 /\ last.op = "delete" /\ last.flag = FALSE
    /\ Len(cache) = 2 /\ ~MapHas(cache, last.key)
    /\ storage # Stringify(cache)

C17_ListsAreMRUFirst ==
    [][(engine = V3 /\ last'.op \in {"getEntries", "getKeys"})
       => /\ Len(last'.list) = Len(cache')
          /\ {last'.list[i] : i \in DOMAIN last'.list} = KeysOf(cache')
          /\ \A i, j \in DOMAIN last'.list :
                i < j => \E a, b \in DOMAIN uses' :
                            a > b /\ uses'[a] = last'.list[i] /\ uses'[b] = last'.list[j]
          /\ (/\ last.op = "set" \/ (last.op = "get" /\ last.ret # Undefined)
              /\ MapHas(cache', last.key))
             => last'.list[1] = last.key]_vars

\* C17 witness: A was set before B (the snapshot still says so) and read after
\* it, and getEntries lists A first.
C17_Witness ==
    /\ engine = V3 /\ last.op = "getEntries"
    /\ last.list = <<"A", "B">>
    /\ Len(storage.data) = 2
    /\ storage.data[1][1] = "A" /\ storage.data[2][1] = "B"

\* C18: has(k), in either engine, is not a use: the entries that stay resident
\* keep their order and their fields, and the live entries, from which the
\* next overflowing set picks the key to evict, are the same before and after.
C18_HasIsNotAUse ==
    [][(last'.op = "has")
       => /\ cache' = SelectSeq(cache, LAMBDA e : MapHas(cache', e.key))
          /\ LiveAt(cache', now') = LiveAt(cache, now)
          /\ now' = now
          /\ storage' = storage]_vars

\* C18 witness: has(k) returned true for the least recently used of two keys
\* and k is still first in line for eviction.
C18_Witness ==
    /\ engine = V3 /\ last.op = "has" /\ last.flag
    /\ Len(cache) = 2 /\ cache[1].key = last.key
    /\ config.maxSize = 2

\* C19: a TTLLRUCache.get(k) that returns undefined, k being absent or expired,
\* leaves the entries that stay resident in their order; a get that returns a
\* value puts k last in the Map (the MRU position) and leaves the others in
\* their order.
C19_MissKeepsOrder ==
    [][(engine = V3 /\ last'.op = "get")
       => LET k == last'.key
          IN  /\ last'.ret = Undefined
                 => /\ cache' = SelectSeq(cache, LAMBDA e : MapHas(cache', e.key))
                    /\ ~MapHas(cache', k)
              /\ last'.ret # Undefined
                 => /\ cache'[Len(cache')].key = k
                    /\ MapDelete(cache', k)
                         = SelectSeq(cache, LAMBDA e : e.key # k /\ MapHas(cache', e.key))]_vars

\* C19 witness: a get of an absent key returned undefined and left the two
\* resident keys in the order an earlier get hit gave them, which differs
\* from the order in the stored snapshot.
C19_Witness ==
    /\ engine = V3 /\ last.op = "get" /\ last.ret = Undefined
    /\ Count(log, "miss") = 1
    /\ KeySeq(cache) = <<"B", "A">>
    /\ Len(storage.data) = 2
    /\ storage.data[1][1] = "A" /\ storage.data[2][1] = "B"

\* C20: a single TTLLRUCache.get(key) never grows the resident count and
\* shrinks it by at most one, removing only the requested key and only when
\* that key is expired.
C20_GetShrinksByAtMostOne ==
    [][(engine = V3 /\ last'.op = "get")
       => /\ Len(cache') <= Len(cache)
          /\ Len(cache) - Len(cache') <= 1
          /\ KeysOf(cache) \ KeysOf(cache') \subseteq {last'.key}
          /\ \A i \in DOMAIN cache :
                ~MapHas(cache', cache[i].key) => now' >= cache[i].expiresAt]_vars

\* The number of events of one type that name key k.
CountFor(s, type, k) == Cardinality({i \in DOMAIN s : s[i].type = type /\ s[i].key = k})

\* C21: every get(key), in either engine, emits exactly one event among 'hit',
\* 'miss' and 'expired' for the requested key: 'miss' exactly when the key is
\* not resident, 'expired' and no 'miss' exactly when it is resident but
\* expired, 'hit' exactly when it is resident and live.
C21_GetEmitsOneOutcome ==
    [][(last'.op = "get")
       => LET k == last'.key
              resident == MapHas(cache, k)
              expired == resident /\ now' >= MapGet(cache, k).expiresAt
              hits == CountFor(log', "hit", k)
              misses == CountFor(log', "miss", k)
              expireds == CountFor(log', "expired", k)
          IN  /\ hits + misses + expireds = 1
              /\ misses = 1 <=> ~resident
              /\ expireds = 1 <=> expired
              /\ hits = 1 <=> (resident /\ ~expired)]_vars

\* C22: an engine constructed when nothing is stored under storageKey starts
\* with an empty resident set and has emitted one 'loaded' event that reports
\* zero entries.
C22_AbsentStartsLoadedEmpty ==
    (last.op = "new" /\ storage = NullItem)
    => cache = <<>> /\ log = <<Ev("loaded", "", 0)>>

\* C23: in TTLCache an overflowing set of a new key evicts exactly one entry,
\* the live one least recently used in the order of the operations (set or
\* get hit), also when several of them read the same Date.now() and left
\* equal lastAccessAt values.
C23_TimestampTiesEvictByUse ==
    [][(/\ engine = V2
        /\ last'.op = "set"
        /\ ~MapHas(LiveAt(cache, now), last'.key)
        /\ Len(LiveAt(cache, now)) = config.maxSize)
       => LET live == LiveAt(cache, now)
              oldest == Kept(uses, live)[1]
          IN  /\ Count(log', "evicted") = 1
              /\ EventKeys(log', "evicted") = {oldest}
              /\ KeysOf(live) \ KeysOf(cache') = {oldest}]_vars

\* C24: after TTLCache.updateConfig lowers maxSize below the resident count,
\* the next set of a new key returns with the resident count at most the new
\* maxSize.
C24_SetEvictsDownToNewBound ==
    [][(/\ engine = V2
        /\ last.op = "updateConfig"
        /\ Len(cache) > config.maxSize
        /\ last'.op = "set"
        /\ ~MapHas(cache, last'.key))
       => Len(cache') <= config.maxSize]_vars

\* C25: set, get and delete called on TTLLRUCache with an empty-string key
\* mutate nothing: the resident entries, their order and the stored item are
\* the same after the call as before it.
C25_EmptyKeyRejected ==
    [][(engine = V3 /\ last'.op \in {"set", "get", "delete"} /\ last'.key = "")
       => cache' = cache /\ storage' = storage]_vars

\* k is resident and the clock has reached its expiresAt.
ResidentExpired(k) == MapHas(cache, k) /\ now >= MapGet(cache, k).expiresAt

\* C26: in the v3 CacheDemo, while the refresh timer keeps firing, every
\* resident entry whose expiresAt has passed is eventually out of the Map with
\* no user operation needed, and the render that removes it logs one 'expired'
\* event for it.
C26_TimerRemovesExpired ==
    /\ \A k \in TwoKeys : ResidentExpired(k) ~> ~ResidentExpired(k)
    /\ [][(last'.op = "render")
          => /\ \A k \in TwoKeys : ~ResidentExpired(k)'
             /\ \A k \in TwoKeys :
                   ResidentExpired(k) => ~MapHas(cache', k) /\ CountFor(log', "expired", k) = 1
             /\ LiveAt(cache', now') = LiveAt(cache, now)]_vars

\* C26 witness: a render, after the clock moved, removed the expired A and
\* logged it, B staying resident.
C26_Witness ==
    /\ last.op = "render"
    /\ CountFor(log, "expired", "A") = 1
    /\ KeySeq(cache) = <<"B">>
    /\ now >= 1

\* The direction the header of a column shows: "none" when it is not sorted.
DirOf(st, key) ==
    IF ActiveSorts(FindSort(st, key)) = <<>> THEN "none" ELSE FindSort(st, key)[1].direction

\* not sorted -> ascending -> descending -> not sorted
CycleNext(d) == IF d = "none" THEN "asc" ELSE IF d = "asc" THEN "desc" ELSE "none"

\* C27: in the v3 table App every click on a column header moves that column
\* one step along not sorted, ascending, descending, not sorted, whatever
\* other columns are sorted at the time, so three clicks on the same header
\* bring it back to not sorted.
C27_HeaderClickCycles ==
    [][\A key \in SortKeys :
          lastAction' = <<"Sorted", key>>
          => DirOf(sortState', key) = CycleNext(DirOf(sortState, key))]_vars

\* C27 witness: the second click on name made it descending while salary is
\* sorted too.
C27_Witness ==
    /\ lastAction = <<"Sorted", "name">>
    /\ Len(sortState) = 2
    /\ DirOf(sortState, "name") = "desc"
    /\ DirOf(sortState, "salary") = "asc"

\* C28: after any sequence of header clicks at most two columns have an
\* active sort, their priorities are exactly 1..n in the order in which they
\* became active, and a click on a third column drops the one that became
\* active first.
C28_AtMostTwoSortsInOrder ==
    [][/\ Len(ActiveSorts(sortState')) <= 2
       /\ [i \in DOMAIN ActiveSorts(sortState') |-> ActiveSorts(sortState')[i].key] = activated'
       /\ \A i \in DOMAIN ActiveSorts(sortState') : ActiveSorts(sortState')[i].priority = i
       /\ \A key \in SortKeys :
             (/\ lastAction' = <<"Sorted", key>>
              /\ Len(activated) = 2
              /\ DirOf(sortState, key) = "none")
             => /\ DirOf(sortState', activated[1]) = "none"
                /\ DirOf(sortState', activated[2]) = DirOf(sortState, activated[2])
                /\ activated' = <<activated[2], key>>]_vars

\* C28 witness: after id and name were sorted, the click on salary left name
\* with priority 1 and salary with priority 2, and id not sorted.
C28_Witness ==
    /\ lastAction = <<"Sorted", "salary">>
    /\ activated = <<"name", "salary">>
    /\ Len(sortState) = 2
    /\ sortState[1].key = "name" /\ sortState[1].priority = 1
    /\ sortState[2].key = "salary" /\ sortState[2].priority = 2
    /\ sortState[2].direction = "asc"
    /\ DirOf(sortState, "id") = "none"

\* C29: in both engines set sweeps before it checks the capacity: when the
\* live entries are fewer than maxSize, a set of a new key removes no live
\* entry and emits no 'evicted' event, however many expired entries were
\* resident when it was called.
C29_SweepBeforeCapacityCheck ==
    [][(/\ last'.op = "set"
        /\ ~MapHas(cache, last'.key)
        /\ Len(LiveAt(cache, now)) < config.maxSize)
       => /\ KeysOf(LiveAt(cache, now)) \subseteq KeysOf(cache')
          /\ Count(log', "evicted") = 0
          /\ MapHas(cache', last'.key)]_vars

\* C29 witness: with maxSize 1 and an expired entry resident, a set of another
\* key swept it, evicted nothing and left the new key resident.
C29_Witness ==
    /\ last.op = "set" /\ config.maxSize = 1
    /\ Count(log, "expired") = 1 /\ Count(log, "evicted") = 0
    /\ KeySeq(cache) = <<last.key>>
    /\ ~(last.key \in EventKeys(log, "expired"))

\* C30: within one set call of either engine the events come in this order:
\* one 'expired' for each swept key, then at most one 'evicted', then exactly
\* one 'set' for the key, then exactly one of 'saved' and 'parse-error'; and
\* what a successful write stores already contains the new entry.
C30_SetEventOrder ==
    [][(last'.op = "set")
       => LET n == Len(log')
              dead == {i \in DOMAIN cache : now >= cache[i].expiresAt}
          IN  /\ n >= 2
              /\ log'[n].type \in {"saved", "parse-error"}
              /\ log'[n - 1].type = "set" /\ log'[n - 1].key = last'.key
              /\ \A i \in 1 .. n - 2 :
                    \/ log'[i].type = "expired"
                    \/ log'[i].type = "evicted" /\ i = n - 2
              /\ Count(log', "expired") = Cardinality(dead)
              /\ EventKeys(log', "expired") = {cache[i].key : i \in dead}
              /\ log'[n].type = "saved"
                 => /\ storage' = Stringify(cache')
                    /\ MapHas(cache', last'.key)
                    /\ log'[n].n = Len(cache')
              /\ log'[n].type = "parse-error" => storage' = storage]_vars

\* C30 witness: a set that swept one key, evicted another, and was saved.
C30_Witness ==
    /\ last.op = "set"
    /\ [i \in DOMAIN log |-> log[i].type] = <<"expired", "evicted", "set", "saved">>

\* C31: the TTL of an entry runs from its last write. A get that hits returns
\* the value, moves the key to the recent end and leaves the value and the
\* expiresAt of every resident entry as they were; a set on a resident key
\* replaces its expiresAt by Date.now() + the ttl of that set.
C31_TTLFromLastWrite ==
    [][/\ (last'.op = "get" /\ Count(log', "hit") = 1)
          => /\ MapHas(cache, last'.key) /\ MapHas(cache', last'.key)
             /\ MapGet(cache', last'.key).value = MapGet(cache, last'.key).value
             /\ MapGet(cache', last'.key).expiresAt = MapGet(cache, last'.key).expiresAt
             /\ last'.ret = MapGet(cache, last'.key).value
             /\ uses'[Len(uses')] = last'.key
             /\ \A k \in KeysOf(cache') :
                   /\ MapGet(cache', k).value = MapGet(cache, k).value
                   /\ MapGet(cache', k).expiresAt = MapGet(cache, k).expiresAt
       /\ (last'.op = "set" /\ MapHas(cache, last'.key))
          => MapGet(cache', last'.key).expiresAt
                = now' + ResolveTTL(last'.ttlMs, config)]_vars

\* C31 witness: a get hit some time after the write, which moved the key past
\* another resident key and left its expiresAt at what the write gave it.
C31_Witness ==
    /\ last.op = "get" /\ Count(log, "hit") = 1
    /\ Len(cache) = 2
    /\ uses[2] = last.key
    /\ storage.kind = "json" /\ Len(storage.data) = 2 /\ storage.data[1][1] = last.key
    /\ written[last.key] # <<>>
    /\ MapGet(cache, last.key).expiresAt = written[last.key][1].expiresAt
    /\ MapGet(cache, last.key).expiresAt < now + config.defaultTTLms

\* C32: in TTLLRUCache the store is written by set, by a delete that removed a
\* key and by clear, and by nothing else: construction, get, has, getSize,
\* getEntries, getKeys and a delete of a key that is not resident leave the
\* stored item as it was and log no 'saved'.
C32_OnlyWritesTouchStore ==
    [][(engine = V3)
       => /\ (\/ last'.op \in {"new", "get", "has", "size", "getEntries", "getKeys"}
              \/ last'.op = "delete" /\ ~last'.flag)
             => /\ storage' = storage
                /\ Count(log', "saved") = 0
          /\ (\/ last'.op \in {"set", "clear"}
              \/ last'.op = "delete" /\ last'.flag)
             => /\ storage' = Stringify(cache')
                /\ Count(log', "saved") = 1]_vars

\* C32 witness: a get swept an expired entry out of the table and the stored
\* item still lists it.
C32_Witness ==
    /\ engine = V3
    /\ last.op = "get"
    /\ Count(log, "expired") >= 1
    /\ storage.kind = "json"
    /\ \E i \in DOMAIN storage.data :
          /\ storage.data[i][1] \in EventKeys(log, "expired")
          /\ ~MapHas(cache, storage.data[i][1])

\* The live (key, value, expiresAt) triples of a Map at time t.
LiveTriples(m, t) ==
    {<<m[i].key, m[i].value, m[i].expiresAt>> : i \in {j \in DOMAIN m : t < m[j].expiresAt}}

\* The entries the stored item lists (none when the item is absent).
StoredEntries(item) ==
    IF item.kind = "json" THEN [i \in DOMAIN item.data |-> ParseEntry(item.data[i])] ELSE <<>>

\* C33: for a TTLLRUCache whose store starts absent and whose writes all
\* succeed, between operations the live (key, value, expiresAt) triples of the
\* persisted snapshot are the live triples in memory, although reads sweep and
\* reorder the Map without persisting.
C33_SnapshotLiveEqualsMemoryLive ==
    (engine = V3)
    => LiveTriples(StoredEntries(storage), now) = LiveTriples(cache, now)

\* C33 witness: a read swept one entry and left a live one, so the Map is no
\* longer what the snapshot lists.
C33_Witness ==
    /\ engine = V3
    /\ last.op \in {"get", "has", "size", "getEntries"}
    /\ Count(log, "expired") = 1
    /\ Len(StoredEntries(storage)) = 2
    /\ Len(cache) = 1
    /\ LiveTriples(cache, now) # {}

\* C33 second case: a get hit reordered the Map, which now differs from the
\* snapshot in order only.
C33_WitnessReordered ==
    /\ engine = V3
    /\ last.op = "get" /\ Count(log, "hit") = 1
    /\ Len(cache) = 2
    /\ KeySeq(StoredEntries(storage)) = Reverse(KeySeq(cache))

\* C34: a TTLLRUCache constructed from a snapshot holds the entries that
\* survive the load in the order the snapshot lists them, which is the recency
\* order of the saving engine at its last save; when no get hit has reordered
\* the saving engine since, the new engine holds the keys of the saving engine
\* swept, in the same order, and both evict the same key on the same next set.
C34_ReloadKeepsRecencyOrder ==
    [][(engine = V3 /\ last'.op = "new" /\ storage.kind = "json" /\ ~LoadThrows(storage))
       => LET stored == StoredEntries(storage)
          IN  /\ cache' = LiveAt(stored, now)
              /\ (KeySeq(LiveAt(cache, now)) = KeySeq(LiveAt(stored, now)))
                 => /\ KeySeq(cache') = KeySeq(LiveAt(cache, now))
                    /\ \A k \in Keys :
                          EvictEvents(MapDelete(cleanupExpired(cache', now), k), config')
                             = EvictEvents(MapDelete(cleanupExpired(cache, now), k), config')]_vars

\* C34 witness: an engine constructed, after the clock moved on, from a
\* snapshot of two entries that both survive, in the snapshot's order and full.
C34_Witness ==
    /\ engine = V3
    /\ last.op = "new"
    /\ now > 0
    /\ log = <<Ev("loaded", "", 2)>>
    /\ Len(cache) = 2 /\ config.maxSize = 2
    /\ KeySeq(cache) = KeySeq(StoredEntries(storage))

\* C35: the refresh calls of the UI timer cannot be observed through the
\* results of the engine. A refresh removes the expired entries and nothing
\* else, so this is: every result of get, has, getSize and delete is the one
\* the live entries alone give, the same whether or not the expired ones were
\* still in the Map when the call was made.
C35_RefreshUnobservable ==
    [][(engine = V3)
       => LET live == LiveAt(cache, now)
          IN  /\ (last'.op = "get")
                 => last'.ret = IF MapHas(live, last'.key)
                                    /\ now' < MapGet(live, last'.key).expiresAt
                                 THEN MapGet(live, last'.key).value
                                 ELSE Undefined
              /\ (last'.op = "has") => (last'.flag <=> MapHas(live, last'.key))
              /\ (last'.op = "size") => last'.n = Len(live)
              /\ (last'.op = "delete") => (last'.flag <=> MapHas(live, last'.key))]_vars

\* C37: in the v3 table App the current page stays within 1 .. max(1, totalPages)
\* after any sequence of Previous, Next and page-button clicks, filter changes,
\* page-size changes, imports and clear-all, also when no row is shown
\* (totalPages = 0).
C37_PageWithinRange ==
    page \in 1 .. Max(1, totalPages)

\* C36: in the v1 CacheSystem, operations issued back to back with no render
\* between them all take effect: when the Map is empty (after clear) and
\* set('a','1') and set('b','2') are called consecutively, then after the next
\* render both keys are resident and the size is 2.
C36_BackToBackSetsBothTakeEffect ==
    [][(/\ v1Cache = <<>> /\ v1Ref = <<>>
        /\ v1MaxSize >= 2
        /\ Len(v1Queue) = 2
        /\ v1Queue[1].call = V1Call("set", "a", "1")
        /\ v1Queue[2].call = V1Call("set", "b", "2")
        /\ v1Queue' = <<>>)
       => /\ KeysOf(v1Cache') = {"a", "b"}
          /\ Len(v1Ref') = 2]_vars

====
